---- MODULE Spec2Model ----
(***************************************************************************)
(* Store Ratings server (src/index.js): an Express application whose      *)
(* handlers read and write three tables (User, Store, Rating) through a    *)
(* Prisma client.  Every `await prisma...` is one atomic database          *)
(* operation; between two of them the handlers of other requests may run.  *)
(* A request is therefore a small process, one step per database call.    *)
(* The synchronous code around a call (middleware, body validation, the    *)
(* res.json that follows the last call) reads only the request and the     *)
(* handler's locals, so it commutes with every step of another request and *)
(* is taken together with the call: a handler's first step is the arrival  *)
(* of the request, the middleware, the validation and the first call.      *)
(*                                                                         *)
(* Not modelled: the name, email and password columns (their checks are    *)
(* the boolean input `valid`; PUT /users/password writes only the password *)
(* column), and the text of the listing of users and of the dashboard.     *)
(* averageRating is kept in tenths (the integer n of toFixed(1)).          *)
(***************************************************************************)
EXTENDS Integers, FiniteSets, Sequences, TLC

\* ------------------------------------------------------------- bounds
MaxUsers == 3
MaxStores == 1
MaxRatings == 2
MaxRaters == 20
MaxSteps == 12

Clients == {"c1", "c2"}

\* ---------------------------------------------------------- constants
MinRating == 1
MaxRating == 5

Roles == {"USER", "OWNER", "ADMIN"}
\* the roles a signup or a user update asks for (GUEST: none of the three)
RoleInputs == {"USER", "OWNER", "GUEST"}
\* the ratings a body carries
RatingInputs == {0, 2, 5, 6}
UserIds == 1..MaxUsers
StoreIds == 1..MaxStores

VARIABLES
  users,        \* User table: id -> role (rows that exist)
  stores,       \* Store table: id -> ownerId
  ratings,      \* Rating table: set of [id, storeId, userId, rating]
  nextUserId,   \* autoincrement sequences of the three tables
  nextStoreId,
  nextRatingId,
  token,        \* the JWT a client holds: payload {id, role}
  pc,           \* where each client's request stands
  req,          \* the request in flight: route and inputs
  loc,          \* handler local: existingRating.id (0: null)
  wrote,        \* whether the request in flight has changed a table
  done,         \* the request answered by the last step, if it answered one
  budget        \* the steps the run may still take (Unmetered: any number)

db == <<users, stores, ratings, nextUserId, nextStoreId, nextRatingId>>
vars == <<users, stores, ratings, nextUserId, nextStoreId, nextRatingId,
          token, pc, req, loc, wrote, done, budget>>

Unmetered == MaxSteps + 1

NoToken == [id |-> 0, role |-> "NONE"]
NoRating == [id |-> 0, storeId |-> 0, userId |-> 0, rating |-> 0]
NoReq == [op |-> "none", id |-> 0, role |-> "NONE", owner |-> 0,
          rating |-> 0]
NoDone == [op |-> "none", status |-> 0, msg |-> "", role |-> "NONE",
           id |-> 0, sent |-> 0, found |-> 0, wrote |-> FALSE,
           rec |-> NoRating, list |-> {}]

\* ------------------------------------------------------ pure functions

\* a gate that turns away normal users only
AdminAllowedLoose(role) == role # "USER"

\* middleware decisions
AdminAllowed(role) == role = "ADMIN"

OwnerAllowed(role) == role = "OWNER"

UserAllowed(role) == role = "USER"

\* !rating || rating < 1 || rating > 5
RatingRejected(v) == v = 0 \/ v < MinRating \/ v > MaxRating

\* ["USER", "OWNER", "ADMIN"].includes(role)
RoleValid(role) == role \in Roles

\* a filter on storeId that matches no row
RatingsOfNoStore(rs, s) == {}

\* rows of the Rating table of one store / one user, stores of one owner
RatingsOfStore(rs, s) == {r \in rs : r.storeId = s}

RatingsOfUser(rs, u) == {r \in rs : r.userId = u}

StoresOfOwner(st, u) == {s \in DOMAIN st : st[s] = u}

\* a Rating table without the compound unique key
RatingKeyUnchecked(rs, s, u) == FALSE

\* the compound unique key storeId_userId of the Rating table
RatingKeyTaken(rs, s, u) == \E r \in rs : r.storeId = s /\ r.userId = u

\* prisma.rating.findUnique({ where: { storeId_userId } }): the id, 0 for null
FindRating(rs, s, u) ==
  IF RatingKeyTaken(rs, s, u)
  THEN (CHOOSE r \in rs : r.storeId = s /\ r.userId = u).id
  ELSE 0

\* an update that leaves the row as it was
UpdateRatingStale(rs, id, v) == rs

\* prisma.rating.update({ where: { id }, data: { rating } })
UpdateRating(rs, id, v) ==
  {IF r.id = id THEN [r EXCEPT !.rating = v] ELSE r : r \in rs}

\* store.ratings.reduce((a, r) => a + r.rating, 0)
RECURSIVE SumRatings(_)
SumRatings(rs) ==
  IF rs = {} THEN 0
  ELSE LET r == CHOOSE x \in rs : TRUE
       IN r.rating + SumRatings(rs \ {r})

\* an average cut after the first decimal instead of rounded
ToFixedTrunc(sum, count) ==
  IF count = 0 THEN 0 ELSE (10 * sum) \div count

\* The ties k/10 + 0.05 (k tenths) whose IEEE-754 double lies below the
\* decimal value, so that toFixed(1) prints k and not k+1 (1.15 -> "1.1").
\* The other ties are exact in binary (x.25, x.75) or lie above.
TieBelow == {1, 3, 8, 9, 11, 14, 16, 19, 20, 21, 25, 26, 30, 31, 35, 36,
             40, 43, 45, 48, 50, 53, 55, 58}

\* parseFloat((sum / count).toFixed(1)) in tenths; 0 for no ratings.
\* toFixed picks the n with n/10 nearest the double, the larger on a tie.
ToFixed1(sum, count) ==
  IF count = 0 THEN 0
  ELSE LET k == (10 * sum) \div count
           rem == (10 * sum) % count
       IN IF 2 * rem < count THEN k
          ELSE IF 2 * rem > count THEN k + 1
          ELSE IF k \in TieBelow THEN k ELSE k + 1

\* stores.map(store => ({...store, averageRating, totalRatings}))
Aggregate(rs, s) ==
  [id |-> s,
   averageRating |-> ToFixed1(SumRatings(RatingsOfStore(rs, s)),
                              Cardinality(RatingsOfStore(rs, s))),
   totalRatings |-> Cardinality(RatingsOfStore(rs, s))]

\* Referential actions of the schema (schema.prisma is not among the
\* sources): a User row with stores or ratings, and a Store row with
\* ratings, cannot be deleted; a Store needs its owner row and a Rating
\* its store and user rows.
UserReferenced(st, rs, u) ==
  StoresOfOwner(st, u) # {} \/ RatingsOfUser(rs, u) # {}

StoreReferenced(rs, s) == RatingsOfStore(rs, s) # {}

RatingRefsOk(us, st, s, u) == s \in DOMAIN st /\ u \in DOMAIN us

OwnerRefOk(us, o) == o \in DOMAIN us

\* --------------------------------------------------------- plumbing

\* one step of a handler is taken from the budget of a metered run
Spend ==
  /\ budget # 0
  /\ budget' = IF budget = Unmetered THEN budget ELSE budget - 1

Put(f, k, v) == [x \in DOMAIN f \cup {k} |-> IF x = k THEN v ELSE f[x]]

Drop(f, k) == [x \in DOMAIN f \ {k} |-> f[x]]

\* res.status(status).json(...) as the answer to route `op`, with what the
\* request was: role is the role of the verified token (NONE when there is
\* none), id the :id of the route, sent the rating of the body, found the
\* id of existingRating, w whether this request wrote
Answer(p, op, status, msg, role, id, w, rec, list) ==
  [op |-> op, status |-> status, msg |-> msg, role |-> role, id |-> id,
   sent |-> req[p].rating, found |-> loc[p], wrote |-> w, rec |-> rec,
   list |-> list]

\* an answer without a record or a list
Plain(p, op, status, msg, id, w) ==
  Answer(p, op, status, msg, token[p].role, id, w, NoRating, {})

\* the response is sent: the request is over
Finish(p, answer) ==
  /\ Spend
  /\ done' = answer
  /\ pc' = [pc EXCEPT ![p] = "idle"]
  /\ req' = [req EXCEPT ![p] = NoReq]
  /\ loc' = [loc EXCEPT ![p] = 0]
  /\ wrote' = [wrote EXCEPT ![p] = FALSE]

\* the handler waits for its next database call
Await(p, next, r, found, w) ==
  /\ Spend
  /\ done' = NoDone
  /\ pc' = [pc EXCEPT ![p] = next]
  /\ req' = [req EXCEPT ![p] = r]
  /\ loc' = [loc EXCEPT ![p] = found]
  /\ wrote' = [wrote EXCEPT ![p] = w]

\* catch (err) { res.status(500).json({ error: err.message }) }
Fail(p, op, msg, id) ==
  /\ Finish(p, Plain(p, op, 500, msg, id, wrote[p]))
  /\ UNCHANGED <<db, token>>

\* authMiddleware and the role check behind it answer by themselves: 401
\* without a header, 403 when jwt.verify fails, 403 when the role of the
\* token is not the one the route asks for
Refused(p, op, allowed, msg) ==
  /\ pc[p] = "idle"
  /\ \/ Finish(p, Answer(p, op, 401, "No token provided", "NONE", 0, FALSE,
                         NoRating, {}))
     \/ Finish(p, Answer(p, op, 403, "Invalid token", "NONE", 0, FALSE,
                         NoRating, {}))
     \/ /\ token[p] # NoToken
        /\ ~allowed
        /\ Finish(p, Plain(p, op, 403, msg, 0, FALSE))
  /\ UNCHANGED <<db, token>>

\* the request carries a token that verifies and whose role the route takes
Admitted(p, allowed) ==
  /\ pc[p] = "idle"
  /\ token[p] # NoToken
  /\ allowed

\* a 400 of the handler's validation of the body
Invalid(p, op, allowed, msg) ==
  /\ Admitted(p, allowed)
  /\ Finish(p, Plain(p, op, 400, msg, 0, FALSE))
  /\ UNCHANGED <<db, token>>

\* ------------------------------------------------------------ POST /signup

Signup(p) ==
  \/ Refused(p, "signup", AdminAllowed(token[p].role), "Admin access required")
  \/ Invalid(p, "signup", AdminAllowed(token[p].role), "Invalid input")
  \/ \E role \in RoleInputs :
       /\ ~RoleValid(role)
       /\ Invalid(p, "signup", AdminAllowed(token[p].role), "Invalid role")
  \/ \E role \in RoleInputs :
       /\ Admitted(p, AdminAllowed(token[p].role))
       /\ RoleValid(role)
       /\ nextUserId <= MaxUsers
       /\ users' = Put(users, nextUserId, role)
       /\ nextUserId' = nextUserId + 1
       /\ Finish(p, Plain(p, "signup", 200, "User created", 0, TRUE))
       /\ UNCHANGED <<stores, ratings, nextStoreId, nextRatingId, token>>

\* ------------------------------------------------------------- POST /login

Login(p) ==
  /\ pc[p] = "idle"
  /\ \/ /\ Finish(p, Answer(p, "login", 400, "Invalid email format", "NONE",
                            0, FALSE, NoRating, {}))
        /\ UNCHANGED token
     \/ \E u \in UserIds :
          /\ u \notin DOMAIN users
          /\ Finish(p, Answer(p, "login", 400, "User not found", "NONE",
                              0, FALSE, NoRating, {}))
          /\ UNCHANGED token
     \/ \E u \in DOMAIN users :
          \/ /\ Finish(p, Answer(p, "login", 400, "Invalid password", "NONE",
                                 0, FALSE, NoRating, {}))
             /\ UNCHANGED token
          \/ /\ token' = [token EXCEPT ![p] = [id |-> u, role |-> users[u]]]
             /\ Finish(p, Answer(p, "login", 200, "token", "NONE",
                                 0, FALSE, NoRating, {}))
  /\ UNCHANGED db

\* -------------------------------------------------------- GET /admin/users

AdminUsers(p) ==
  \/ Refused(p, "listUsers", AdminAllowed(token[p].role), "Admin access required")
  \/ /\ Admitted(p, AdminAllowed(token[p].role))
     /\ Finish(p, Plain(p, "listUsers", 200, "users", 0, FALSE))
     /\ UNCHANGED <<db, token>>

\* ---------------------------------------------------- PUT /admin/users/:id

PutUser(p) ==
  \/ Refused(p, "putUser", AdminAllowed(token[p].role), "Admin access required")
  \/ Invalid(p, "putUser", AdminAllowed(token[p].role), "Invalid input")
  \/ \E role \in RoleInputs :
       /\ ~RoleValid(role)
       /\ Invalid(p, "putUser", AdminAllowed(token[p].role), "Invalid role")
  \/ \E u \in UserIds, role \in RoleInputs :
       /\ Admitted(p, AdminAllowed(token[p].role))
       /\ RoleValid(role)
       /\ IF u \notin DOMAIN users
          THEN Fail(p, "putUser", "P2025", u)
          ELSE /\ users' = [users EXCEPT ![u] = role]
               /\ Finish(p, Plain(p, "putUser", 200, "User updated", u, TRUE))
               /\ UNCHANGED <<stores, ratings, nextUserId, nextStoreId,
                              nextRatingId, token>>

\* ------------------------------------------------- DELETE /admin/users/:id

\* findUnique with _count; a null user makes user._count throw
DelUserFind(p) ==
  \/ Refused(p, "delUser", AdminAllowed(token[p].role), "Admin access required")
  \/ \E u \in UserIds :
       /\ Admitted(p, AdminAllowed(token[p].role))
       /\ IF u \notin DOMAIN users
          THEN Fail(p, "delUser", "TypeError", u)
          ELSE IF StoresOfOwner(stores, u) # {}
                  \/ RatingsOfUser(ratings, u) # {}
          THEN /\ Finish(p, Plain(p, "delUser", 400,
                    "Cannot delete user with stores or ratings", u, FALSE))
               /\ UNCHANGED <<db, token>>
          ELSE /\ Await(p, "du_delete",
                        [NoReq EXCEPT !.op = "delUser", !.id = u], 0, FALSE)
               /\ UNCHANGED <<db, token>>

DelUserDelete(p) ==
  /\ pc[p] = "du_delete"
  /\ IF req[p].id \notin DOMAIN users
     THEN Fail(p, "delUser", "P2025", req[p].id)
     ELSE IF UserReferenced(stores, ratings, req[p].id)
     THEN Fail(p, "delUser", "P2003", req[p].id)
     ELSE /\ users' = Drop(users, req[p].id)
          /\ Finish(p, Plain(p, "delUser", 200, "User deleted successfully",
                             req[p].id, TRUE))
          /\ UNCHANGED <<stores, ratings, nextUserId, nextStoreId,
                         nextRatingId, token>>

\* ------------------------------------------------------------ POST /stores

\* if (!owner || owner.role !== "OWNER") return 400
OwnerRejected(us, o) == o \notin DOMAIN us \/ us[o] # "OWNER"

CreateStoreOwner(p) ==
  \/ Refused(p, "createStore", AdminAllowed(token[p].role), "Admin access required")
  \/ Invalid(p, "createStore", AdminAllowed(token[p].role), "Invalid input")
  \/ \E o \in UserIds :
       /\ Admitted(p, AdminAllowed(token[p].role))
       /\ IF OwnerRejected(users, o)
          THEN Finish(p, Plain(p, "createStore", 400,
                   "Invalid owner ID or user is not a store owner", 0, FALSE))
          ELSE Await(p, "cs_create",
                     [NoReq EXCEPT !.op = "createStore", !.owner = o],
                     0, FALSE)
       /\ UNCHANGED <<db, token>>

CreateStoreCreate(p) ==
  /\ pc[p] = "cs_create"
  /\ nextStoreId <= MaxStores
  /\ IF ~OwnerRefOk(users, req[p].owner)
     THEN Fail(p, "createStore", "P2003", 0)
     ELSE /\ stores' = Put(stores, nextStoreId, req[p].owner)
          /\ nextStoreId' = nextStoreId + 1
          /\ Finish(p, Plain(p, "createStore", 200, "store", nextStoreId,
                             TRUE))
          /\ UNCHANGED <<users, ratings, nextUserId, nextRatingId, token>>

\* --------------------------------------------------- PUT /admin/stores/:id

PutStoreOwner(p) ==
  \/ Refused(p, "putStore", AdminAllowed(token[p].role), "Admin access required")
  \/ Invalid(p, "putStore", AdminAllowed(token[p].role), "Invalid input")
  \/ \E s \in StoreIds, o \in UserIds :
       /\ Admitted(p, AdminAllowed(token[p].role))
       /\ IF OwnerRejected(users, o)
          THEN Finish(p, Plain(p, "putStore", 400,
                   "Invalid owner ID or user is not a store owner", s, FALSE))
          ELSE Await(p, "ps_update",
                     [NoReq EXCEPT !.op = "putStore", !.id = s, !.owner = o],
                     0, FALSE)
       /\ UNCHANGED <<db, token>>

PutStoreUpdate(p) ==
  /\ pc[p] = "ps_update"
  /\ IF req[p].id \notin DOMAIN stores
     THEN Fail(p, "putStore", "P2025", req[p].id)
     ELSE IF ~OwnerRefOk(users, req[p].owner)
     THEN Fail(p, "putStore", "P2003", req[p].id)
     ELSE /\ stores' = [stores EXCEPT ![req[p].id] = req[p].owner]
          /\ Finish(p, Plain(p, "putStore", 200, "Store updated", req[p].id,
                             TRUE))
          /\ UNCHANGED <<users, ratings, nextUserId, nextStoreId,
                         nextRatingId, token>>

\* ------------------------------------------------ DELETE /admin/stores/:id

\* await prisma.rating.deleteMany({ where: { storeId } })
DelStoreRatings(p) ==
  \/ Refused(p, "delStore", AdminAllowed(token[p].role), "Admin access required")
  \/ \E s \in StoreIds :
       /\ Admitted(p, AdminAllowed(token[p].role))
       /\ ratings' = ratings \ RatingsOfStore(ratings, s)
       /\ Await(p, "ds_store", [NoReq EXCEPT !.op = "delStore", !.id = s],
                0, ratings' # ratings)
       /\ UNCHANGED <<users, stores, nextUserId, nextStoreId, nextRatingId,
                      token>>

\* await prisma.store.delete({ where: { id: storeId } })
DelStoreStore(p) ==
  /\ pc[p] = "ds_store"
  /\ IF req[p].id \notin DOMAIN stores
     THEN Fail(p, "delStore", "P2025", req[p].id)
     ELSE IF StoreReferenced(ratings, req[p].id)
     THEN Fail(p, "delStore", "P2003", req[p].id)
     ELSE /\ stores' = Drop(stores, req[p].id)
          /\ Finish(p, Plain(p, "delStore", 200, "Store deleted successfully",
                             req[p].id, TRUE))
          /\ UNCHANGED <<users, ratings, nextUserId, nextStoreId,
                         nextRatingId, token>>

\* ---------------------------------------------------- POST /stores/:id/rate

RateFindStore(p) ==
  \/ Refused(p, "rate", UserAllowed(token[p].role), "Only normal users can rate stores")
  \/ \E v \in RatingInputs :
       /\ RatingRejected(v)
       /\ Invalid(p, "rate", UserAllowed(token[p].role), "Rating must be between 1 and 5")
  \/ \E s \in StoreIds, v \in RatingInputs :
       /\ Admitted(p, UserAllowed(token[p].role))
       /\ ~RatingRejected(v)
       /\ IF s \notin DOMAIN stores
          THEN Finish(p, Plain(p, "rate", 404, "Store not found", s, FALSE))
          ELSE Await(p, "rt_rating",
                     [NoReq EXCEPT !.op = "rate", !.id = s, !.rating = v],
                     0, FALSE)
       /\ UNCHANGED <<db, token>>

RateFindRating(p) ==
  /\ pc[p] = "rt_rating"
  /\ LET found == FindRating(ratings, req[p].id, token[p].id)
     IN Await(p, IF found # 0 THEN "rt_update" ELSE "rt_create", req[p],
              found, FALSE)
  /\ UNCHANGED <<db, token>>

RateUpdate(p) ==
  /\ pc[p] = "rt_update"
  /\ IF ~\E r \in ratings : r.id = loc[p]
     THEN Fail(p, "rate", "P2025", req[p].id)
     ELSE /\ ratings' = UpdateRating(ratings, loc[p], req[p].rating)
          /\ Finish(p, Answer(p, "rate", 200, "", token[p].role, req[p].id,
                              TRUE, CHOOSE r \in ratings' : r.id = loc[p],
                              {}))
          /\ UNCHANGED <<users, stores, nextUserId, nextStoreId,
                         nextRatingId, token>>

RateCreate(p) ==
  /\ pc[p] = "rt_create"
  /\ nextRatingId <= MaxRatings
  /\ IF RatingKeyTaken(ratings, req[p].id, token[p].id)
     THEN Fail(p, "rate", "P2002", req[p].id)
     ELSE IF ~RatingRefsOk(users, stores, req[p].id, token[p].id)
     THEN Fail(p, "rate", "P2003", req[p].id)
     ELSE LET row == [id |-> nextRatingId, storeId |-> req[p].id,
                      userId |-> token[p].id, rating |-> req[p].rating]
          IN /\ ratings' = ratings \cup {row}
             /\ nextRatingId' = nextRatingId + 1
             /\ Finish(p, Answer(p, "rate", 200, "", token[p].role,
                                 req[p].id, TRUE, row, {}))
             /\ UNCHANGED <<users, stores, nextUserId, nextStoreId, token>>

\* ------------------------------------------------------------ the listings

\* GET /stores: no middleware
GetStores(p) ==
  /\ pc[p] = "idle"
  /\ Finish(p, Answer(p, "getStores", 200, "", "NONE", 0, FALSE, NoRating,
                      {Aggregate(ratings, s) : s \in DOMAIN stores}))
  /\ UNCHANGED <<db, token>>

AdminStores(p) ==
  \/ Refused(p, "adminStores", AdminAllowed(token[p].role), "Admin access required")
  \/ /\ Admitted(p, AdminAllowed(token[p].role))
     /\ Finish(p, Answer(p, "adminStores", 200, "", token[p].role, 0, FALSE,
                         NoRating,
                         {Aggregate(ratings, s) : s \in DOMAIN stores}))
     /\ UNCHANGED <<db, token>>

OwnerStores(p) ==
  \/ Refused(p, "ownerStores", OwnerAllowed(token[p].role), "Store owner access required")
  \/ /\ Admitted(p, OwnerAllowed(token[p].role))
     /\ Finish(p, Answer(p, "ownerStores", 200, "", token[p].role,
                         token[p].id, FALSE, NoRating,
                         {Aggregate(ratings, s) :
                            s \in StoresOfOwner(stores, token[p].id)}))
     /\ UNCHANGED <<db, token>>

Dashboard(p) ==
  \/ Refused(p, "dashboard", AdminAllowed(token[p].role), "Admin access required")
  \/ /\ Admitted(p, AdminAllowed(token[p].role))
     /\ Finish(p, Plain(p, "dashboard", 200, "dashboard", 0, FALSE))
     /\ UNCHANGED <<db, token>>

\* ---------------------------------------------------------- specification

\* the database as deployed: one administrator (signup needs one), no client
\* logged in, no request in flight
Deployed ==
  /\ users = (1 :> "ADMIN")
  /\ stores = << >>
  /\ ratings = {}
  /\ nextUserId = 2
  /\ nextStoreId = 1
  /\ nextRatingId = 1
  /\ token = [p \in Clients |-> NoToken]
  /\ pc = [p \in Clients |-> "idle"]
  /\ req = [p \in Clients |-> NoReq]
  /\ loc = [p \in Clients |-> 0]
  /\ wrote = [p \in Clients |-> FALSE]
  /\ done = NoDone

Init == Deployed /\ budget = Unmetered

\* every route of the application, for one client
Routes(p) ==
  \/ Signup(p)
  \/ Login(p)
  \/ AdminUsers(p)
  \/ PutUser(p)
  \/ DelUserFind(p)
  \/ DelUserDelete(p)
  \/ CreateStoreOwner(p)
  \/ CreateStoreCreate(p)
  \/ PutStoreOwner(p)
  \/ PutStoreUpdate(p)
  \/ DelStoreRatings(p)
  \/ DelStoreStore(p)
  \/ RateFindStore(p)
  \/ RateFindRating(p)
  \/ RateUpdate(p)
  \/ RateCreate(p)
  \/ GetStores(p)
  \/ AdminStores(p)
  \/ OwnerStores(p)
  \/ Dashboard(p)

Next == \E p \in Clients : Routes(p)

\* the whole application under concurrent clients
Spec == Init /\ [][Next]_vars

\* the whole application, one request at a time, for the first MaxSteps
\* steps after the deployment
InitApi == Deployed /\ budget = MaxSteps

NextApi == Routes("c1")

SpecApi == InitApi /\ [][NextApi]_vars

\* The rating ledger under concurrent clients: the stores, their ratings and
\* the listings, in a database that holds an administrator, a store owner
\* and a normal user.
InitLedger ==
  /\ users = (1 :> "ADMIN" @@ 2 :> "OWNER" @@ 3 :> "USER")
  /\ stores = << >>
  /\ ratings = {}
  /\ nextUserId = 4
  /\ nextStoreId = 1
  /\ nextRatingId = 1
  /\ token = [p \in Clients |-> NoToken]
  /\ pc = [p \in Clients |-> "idle"]
  /\ req = [p \in Clients |-> NoReq]
  /\ loc = [p \in Clients |-> 0]
  /\ wrote = [p \in Clients |-> FALSE]
  /\ done = NoDone
  /\ budget = Unmetered

NextLedger ==
  \E p \in Clients :
    \/ Login(p)
    \/ DelUserFind(p)
    \/ DelUserDelete(p)
    \/ CreateStoreOwner(p)
    \/ CreateStoreCreate(p)
    \/ DelStoreRatings(p)
    \/ DelStoreStore(p)
    \/ RateFindStore(p)
    \/ RateFindRating(p)
    \/ RateUpdate(p)
    \/ RateCreate(p)
    \/ GetStores(p)
    \/ AdminStores(p)
    \/ OwnerStores(p)

SpecLedger == InitLedger /\ [][NextLedger]_vars

\* The administration of users and stores under concurrent clients
NextAdmin ==
  \E p \in Clients :
    \/ Signup(p)
    \/ Login(p)
    \/ PutUser(p)
    \/ DelUserFind(p)
    \/ DelUserDelete(p)
    \/ CreateStoreOwner(p)
    \/ CreateStoreCreate(p)
    \/ PutStoreOwner(p)
    \/ PutStoreUpdate(p)

SpecAdmin == Init /\ [][NextAdmin]_vars

\* The listings over a store with up to MaxRaters ratings: the database
\* after the administrator created the owner, the raters and the store, and
\* each of the first n raters rated the store once.  c1 is logged in as the
\* administrator and c2 as the owner.
RatersTable(c) ==
  {[id |-> i, storeId |-> 1, userId |-> i + 2,
    rating |-> IF i <= c[1] THEN 1
               ELSE IF i <= c[1] + c[2] THEN 2
               ELSE IF i <= c[1] + c[2] + c[3] THEN 3
               ELSE IF i <= c[1] + c[2] + c[3] + c[4] THEN 4
               ELSE 5] : i \in 1..(c[1] + c[2] + c[3] + c[4] + c[5])}

InitAgg ==
  /\ users = [u \in 1..(MaxRaters + 2) |->
                IF u = 1 THEN "ADMIN" ELSE IF u = 2 THEN "OWNER" ELSE "USER"]
  /\ stores = (1 :> 2)
  /\ \E c1 \in 0..MaxRaters :
       \E c2 \in 0..(MaxRaters - c1) :
         \E c3 \in 0..(MaxRaters - c1 - c2) :
           \E c4 \in 0..(MaxRaters - c1 - c2 - c3) :
             \E c5 \in 0..(MaxRaters - c1 - c2 - c3 - c4) :
               /\ ratings = RatersTable(<<c1, c2, c3, c4, c5>>)
               /\ nextRatingId = c1 + c2 + c3 + c4 + c5 + 1
  /\ nextUserId = MaxRaters + 3
  /\ nextStoreId = 2
  /\ token = ("c1" :> [id |-> 1, role |-> "ADMIN"]
              @@ "c2" :> [id |-> 2, role |-> "OWNER"])
  /\ pc = [p \in Clients |-> "idle"]
  /\ req = [p \in Clients |-> NoReq]
  /\ loc = [p \in Clients |-> 0]
  /\ wrote = [p \in Clients |-> FALSE]
  /\ done = NoDone
  /\ budget = Unmetered

NextAgg ==
  \E p \in Clients :
    \/ GetStores(p)
    \/ AdminStores(p)
    \/ OwnerStores(p)

SpecAgg == InitAgg /\ [][NextAgg]_vars

\* ------------------------------------------------------------- the claims

SamePair(r1, r2) == r1.storeId = r2.storeId /\ r1.userId = r2.userId

\* C1: in every reachable state of the ledger, under every interleaving of
\* rate requests with store creations and deletions and user deletions,
\* the Rating table holds at most one row for each (storeId, userId).
C1_OneRatingPerPair ==
  \A r1 \in ratings : \A r2 \in ratings : SamePair(r1, r2) => r1 = r2

\* two first ratings of one user for one store ran concurrently: the later
\* create was refused by the unique key, and the row of the earlier is there
C1_Witness ==
  /\ done.op = "rate"
  /\ done.msg = "P2002"
  /\ \E r \in ratings : r.storeId = done.id

\* C2: a rating sent for a pair that has a row is written into that row:
\* the lookup finds the row whenever there is one; the request answers 200
\* with a record that has the id of the row found and the rating sent, and
\* right after the answer that record is the only row of its pair.  A
\* rating that found no row answers with a row of a new id.
C2_AnswerIsTheRow ==
  (done.op = "rate" /\ done.status = 200) =>
    /\ done.rec.rating = done.sent
    /\ done.rec.storeId = done.id
    /\ {r \in ratings : SamePair(r, done.rec)} = {done.rec}
    /\ done.found # 0 => done.rec.id = done.found
    /\ done.found = 0 => done.rec.id = nextRatingId - 1

C2_LookupFindsTheRow ==
  \A p \in Clients :
    (pc[p] = "rt_rating" /\ pc'[p] # "rt_rating") =>
      /\ pc'[p] = "rt_update" <=>
           \E r \in ratings : r.storeId = req[p].id /\ r.userId = token[p].id
      /\ pc'[p] = "rt_update" =>
           \E r \in ratings : /\ r.id = loc'[p]
                              /\ r.storeId = req[p].id
                              /\ r.userId = token[p].id

C2_UpsertInPlace == [](C2_AnswerIsTheRow) /\ [][C2_LookupFindsTheRow]_vars

\* the second rating of a pair: row 1, the only row ever created, was found
\* and now holds the 2 that was sent
C2_Witness ==
  /\ done.op = "rate"
  /\ done.status = 200
  /\ done.found = 1
  /\ done.sent = 2
  /\ nextRatingId = 2
  /\ ratings = {done.rec}

\* C3: the upsert is atomic, so of two concurrent first ratings of one user
\* for one store none is answered with an error: no rate request is
\* refused by the unique key of the pair.
C3_NoConflictingFirstRatings ==
  ~(done.op = "rate" /\ done.status = 500 /\ done.msg = "P2002")

\* the role-to-action matrix of the specification
AdminOps == {"signup", "listUsers", "putUser", "delUser", "createStore",
             "adminStores", "putStore", "delStore", "dashboard"}

GatedOps == AdminOps \cup {"rate", "ownerStores"}

MatrixRole(op) ==
  IF op \in AdminOps THEN "ADMIN"
  ELSE IF op = "rate" THEN "USER"
  ELSE IF op = "ownerStores" THEN "OWNER"
  ELSE "NONE"

\* C4: a request to a role-gated route gets past the gate only with a token
\* whose role is the one the matrix allows for the route; with a token of
\* another role it is answered 403; a request answered 401 or 403 has
\* written nothing, carries no record and no listing, and its step leaves
\* the three tables unchanged; the tables change only in a step of a
\* request whose token has the role of its route.
C4_AnswersFollowMatrix ==
  /\ done.op \in GatedOps =>
       /\ done.role = MatrixRole(done.op) \/ done.status \in {401, 403}
       /\ done.role \notin {"NONE", MatrixRole(done.op)} => done.status = 403
       /\ done.status \in {401, 403} =>
            ~done.wrote /\ done.rec = NoRating /\ done.list = {}
  /\ \A p \in Clients :
       pc[p] # "idle" => token[p].role = MatrixRole(req[p].op)

C4_WritesFollowMatrix ==
  /\ done'.status \in {401, 403} => UNCHANGED db
  /\ db' # db =>
       \/ done'.op \in GatedOps /\ done'.role = MatrixRole(done'.op)
       \/ \E p \in Clients : /\ pc'[p] \notin {"idle", pc[p]}
                             /\ token[p].role = MatrixRole(req'[p].op)

C5_DeleteGuard ==
  (/\ done.op = "delUser"
   /\ done.id \in DOMAIN users
   /\ \/ \E s \in DOMAIN stores : stores[s] = done.id
      \/ \E r \in ratings : r.userId = done.id) =>
    (done.status = 400 /\ ~done.wrote)

Abs(x) == IF x < 0 THEN -x ELSE x

\* C7: a listing answers with one entry for each store it covers (every
\* store; the caller's stores for GET /owner/stores); the entry's
\* totalRatings is the number of the store's rows and its averageRating
\* (in tenths) is 0 without rows and otherwise a tenth nearest to
\* sum / count, a tie x.x5 going to either neighbour.
C7_ListingAggregates ==
  (done.op \in {"getStores", "adminStores", "ownerStores"}
     /\ done.status = 200) =>
    /\ {e.id : e \in done.list} =
         IF done.op = "ownerStores"
         THEN {s \in DOMAIN stores : stores[s] = done.id}
         ELSE DOMAIN stores
    /\ \A e \in done.list :
         LET rows == {r \in ratings : r.storeId = e.id}
             n == Cardinality(rows)
         IN /\ e.totalRatings = n
            /\ n = 0 => e.averageRating = 0
            /\ n > 0 =>
                 2 * Abs(10 * SumRatings(rows) - e.averageRating * n) <= n

\* twenty ratings that sum to 81: 4.05 is listed as 4.0
C7_Witness ==
  /\ done.op = "getStores"
  /\ \E e \in done.list : e.totalRatings = 20 /\ e.averageRating = 40
  /\ SumRatings(ratings) = 81

\* C8: a request for a user or a store id that never existed, when it is
\* not turned down by the middleware (401, 403) or by the validation of
\* its body (400), is answered 404 and has written nothing.
C8_AbsentIdIs404 ==
  (/\ done.id # 0
   /\ \/ done.op \in {"putUser", "delUser"} /\ done.id >= nextUserId
      \/ done.op \in {"putStore", "delStore", "rate"}
           /\ done.id >= nextStoreId
   /\ done.status \notin {400, 401, 403}) =>
    (done.status = 404 /\ ~done.wrote)

\* C9: right after POST /stores or PUT /admin/stores/:id wrote a store,
\* the store's ownerId is the id of a user whose role is OWNER.
C9_OwnerIsOwnerAtWrite ==
  (done.op \in {"createStore", "putStore"} /\ done.status = 200) =>
    /\ stores[done.id] \in DOMAIN users
    /\ users[stores[done.id]] = "OWNER"

\* C10: a request that is answered with an error has written nothing.
C10_NoPartialCommit == done.status >= 400 => ~done.wrote

====
